---- MODULE Spec2Model ----
(***************************************************************************)
(* Model of tasks.py: the invoke tasks mkdocs / api / site and the three   *)
(* generator context managers backed_up_file, temp_file and chdir.         *)
(*                                                                         *)
(* The file system is a function from paths to contents; every call into   *)
(* the operating system (open, shutil.copy2, os.remove, os.chdir,          *)
(* os.getcwd, run) either succeeds or raises.  A raised exception is kept  *)
(* in exc while it propagates through the finally blocks; an exception     *)
(* raised inside a finally block replaces the one that was propagating.    *)
(***************************************************************************)
EXTENDS Integers, Sequences, FiniteSets, TLC

VARIABLES
    task,      \* what is being executed: a task of tasks.py or one of its guards
    cleanArg,  \* the clean parameter the mkdocs task is invoked with
    clean,     \* the clean parameter of the running mkdocs call
    pc,        \* position of the control flow
    exc,       \* the exception that is propagating ("none": no exception)
    fs,        \* file system: path -> content, or ABSENT
    cwd,       \* working directory of the process (absolute, as components)
    dirname,   \* argument of chdir
    curdir,    \* local variable curdir of chdir
    steps,     \* number of steps the guarded region has made
    runs,      \* number of invocations so far
    trace,     \* calls of the current invocation: [line, what, ok]
    builds,    \* file system as seen by each "mkdocs build" of the invocation
    entered,   \* the guarded region of the current invocation was entered
    entry,     \* file system / working directory when the invocation began
    orig,      \* file system before the first invocation
    failed,    \* source lines whose call has failed in any invocation so far
    removeKept \* os.remove has failed on an existing file in some invocation

vars == <<task, cleanArg, clean, pc, exc, fs, cwd, dirname, curdir, steps,
          runs, trace, builds, entered, entry, orig, failed, removeKept>>

\* ------------------------------------------------------------------ bounds
MaxRegionSteps == 2
MaxRuns == 2

\* --------------------------------------------------------------- constants
index_path == "docs/index.md"
index_backup_path == "index.md_original"
README == "README.md"
Paths == {index_path, index_backup_path, README}

ABSENT == "ABSENT"     \* the path does not exist
EMPTY == "EMPTY"       \* content of a file that open(path, 'w') has just made
Contents == {"old", "new", EMPTY}

Root == <<>>
ExistingDirs == {Root, <<"docs">>, <<"site">>}
DirArgs == {"docs", "site", "..", "missing"}

Tasks == {"mkdocs", "site", "backed_up_file", "temp_file", "chdir"}
UsesBackup == {"mkdocs", "site", "backed_up_file"}

\* source lines of the calls that are recorded in trace
LOpen == 51
LEntryCopy == 40
LReadmeCopy == 17
LBuild == 18
LRestore == 44
LRemove == 55
LLein == 70
LGetcwd == 60
LChdir == 62
LChdirBack == 66
GuardLines == {LOpen, LEntryCopy, LRestore, LRemove}

\* ----------------------------------------------------------------- helpers
Call(line, what, ok) == [line |-> line, what |-> what, ok |-> ok]

At(line) == {i \in 1..Len(trace) : trace[i].line = line}
Called(line) == At(line) # {}
Failed(line) == \E i \in At(line) : ~trace[i].ok
Succeeded(line) == \E i \in At(line) : trace[i].ok

\* "mkdocs build" + (" --clean" if clean else "")
BuildCommand(c) == <<"mkdocs build">> \o (IF c THEN <<"--clean">> ELSE <<>>)

\* "lein {0}".format(args)
LeinCommand(args) == <<"lein", args>>

\* open(p, 'w').close(): the file is created empty (or truncated), or the
\* call raises and nothing is changed.
CreateOutcomes(f, p) ==
    {<<TRUE, [f EXCEPT ![p] = EMPTY]>>, <<FALSE, f>>}

\* shutil.copy2(src, dst): opens src, then opens dst for writing, copies the
\* data, then the metadata.  It raises before dst is touched (always when src
\* is missing), after dst was truncated, or after the data was written.
CopyOutcomes(f, src, dst) ==
    IF f[src] = ABSENT
    THEN {<<FALSE, f>>}
    ELSE {<<TRUE, [f EXCEPT ![dst] = f[src]]>>,
          <<FALSE, f>>,
          <<FALSE, [f EXCEPT ![dst] = EMPTY]>>,
          <<FALSE, [f EXCEPT ![dst] = f[src]]>>}

\* os.remove(p): raises when p does not exist; may raise when it does.
RemoveOutcomes(f, p) ==
    IF f[p] = ABSENT
    THEN {<<FALSE, f>>}
    ELSE {<<TRUE, [f EXCEPT ![p] = ABSENT]>>, <<FALSE, f>>}

\* the directory that os.chdir(d) names when the working directory is c
Resolve(c, d) ==
    IF d = ".."
    THEN (IF c = Root THEN Root ELSE SubSeq(c, 1, Len(c) - 1))
    ELSE Append(c, d)

\* os.chdir(d) from c: the new working directory, or failure
ChdirOutcomes(c, target) ==
    IF target \in ExistingDirs
    THEN {<<TRUE, target>>, <<FALSE, c>>}
    ELSE {<<FALSE, c>>}

\* where the finally blocks begin once the guarded region is left
CleanupOf(t) ==
    CASE t \in UsesBackup -> "bf_restore"
      [] t = "temp_file" -> "tf_remove"
      [] OTHER -> "cd_restore"

Log(line, what, ok) ==
    /\ trace' = Append(trace, Call(line, what, ok))
    /\ failed' = IF ok THEN failed ELSE failed \cup {line}

\* ------------------------------------------------------------------- Init
Init ==
    /\ task \in Tasks
    /\ cleanArg \in BOOLEAN
    /\ clean = FALSE
    /\ pc = "idle"
    /\ exc = "none"
    /\ fs \in [Paths -> Contents \cup {ABSENT}]
    /\ fs[README] \in {"new", ABSENT}
    /\ fs[index_path] \in {"old", EMPTY, ABSENT}
    /\ fs[index_backup_path] \in {"old", ABSENT}
    /\ cwd \in ExistingDirs
    /\ dirname \in DirArgs
    /\ curdir = Root
    /\ steps = 0
    /\ runs = 0
    /\ trace = <<>>
    /\ builds = <<>>
    /\ entered = FALSE
    /\ entry = [fs |-> fs, cwd |-> cwd]
    /\ orig = fs
    \* the arguments that a task does not read are fixed
    /\ task = "chdir" => fs = [p \in Paths |-> ABSENT] /\ ~cleanArg
    /\ task # "chdir" => cwd = Root /\ dirname = "docs"
    /\ task # "mkdocs" => ~cleanArg
    /\ failed = {}
    /\ removeKept = FALSE

\* ---------------------------------------------------------------- actions

\* The command line invokes the task (or a caller enters the guard).
Invoke ==
    /\ pc = "idle"
    /\ runs < MaxRuns
    /\ runs' = runs + 1
    /\ pc' = CASE task = "site" -> "site_body"
               [] task = "mkdocs" -> "mkdocs"
               [] task = "chdir" -> "cd_getcwd"
               [] OTHER -> "tf_create"
    /\ clean' = cleanArg
    /\ exc' = "none"
    /\ trace' = <<>>
    /\ builds' = <<>>
    /\ entered' = FALSE
    /\ steps' = 0
    /\ entry' = [fs |-> fs, cwd |-> cwd]
    /\ UNCHANGED <<task, cleanArg, fs, cwd, dirname, curdir, orig, failed,
                   removeKept>>

\* site(): the body is pass; the post tasks follow, mkdocs(clean=True) first.
SiteBody ==
    /\ pc = "site_body"
    /\ pc' = "mkdocs"
    /\ clean' = TRUE
    /\ UNCHANGED <<task, cleanArg, exc, fs, cwd, dirname, curdir, steps, runs,
                   trace, builds, entered, entry, orig, failed,
                   removeKept>>

\* mkdocs(clean): enters backed_up_file(index_path, index_backup_path),
\* which enters temp_file(index_backup_path).
Mkdocs ==
    /\ pc = "mkdocs"
    /\ pc' = "tf_create"
    /\ UNCHANGED <<task, cleanArg, clean, exc, fs, cwd, dirname, curdir, steps,
                   runs, trace, builds, entered, entry, orig, failed,
                   removeKept>>

\* temp_file: open(filepath, 'w').close(), then yield; on an error the
\* finally block runs.
TempCreate ==
    /\ pc = "tf_create"
    /\ \E o \in CreateOutcomes(fs, index_backup_path) :
        /\ fs' = o[2]
        /\ Log(LOpen, <<"open">>, o[1])
        /\ IF o[1]
           THEN /\ exc' = exc
                /\ pc' = IF task = "temp_file" THEN "region" ELSE "bf_entry_copy"
                /\ entered' = (task = "temp_file")
           ELSE /\ exc' = "open"
                /\ pc' = "tf_remove"
                /\ entered' = entered
    /\ UNCHANGED <<task, cleanArg, clean, cwd, dirname, curdir, steps, runs,
                   builds, entry, orig,
                   removeKept>>

\* backed_up_file as it would be with the arguments of the entry copy swapped
EntryCopyReversed ==
    /\ pc = "bf_entry_copy"
    /\ \E o \in CopyOutcomes(fs, index_backup_path, index_path) :
        /\ fs' = o[2]
        /\ Log(LEntryCopy, <<"copy2">>, o[1])
        /\ IF o[1]
           THEN /\ exc' = exc
                /\ pc' = IF task = "backed_up_file" THEN "region" ELSE "mk_copy_readme"
                /\ entered' = TRUE
           ELSE /\ exc' = "entry_copy"
                /\ pc' = "bf_restore"
                /\ entered' = entered
    /\ UNCHANGED <<task, cleanArg, clean, cwd, dirname, curdir, steps, runs,
                   builds, entry, orig,
                   removeKept>>

\* backed_up_file: shutil.copy2(filepath, backup_path), then yield; on an
\* error the finally block runs.
EntryCopy ==
    /\ pc = "bf_entry_copy"
    /\ \E o \in CopyOutcomes(fs, index_path, index_backup_path) :
        /\ fs' = o[2]
        /\ Log(LEntryCopy, <<"copy2">>, o[1])
        /\ IF o[1]
           THEN /\ exc' = exc
                /\ pc' = IF task = "backed_up_file" THEN "region" ELSE "mk_copy_readme"
                /\ entered' = TRUE
           ELSE /\ exc' = "entry_copy"
                /\ pc' = "bf_restore"
                /\ entered' = entered
    /\ UNCHANGED <<task, cleanArg, clean, cwd, dirname, curdir, steps, runs,
                   builds, entry, orig,
                   removeKept>>

\* mkdocs, in the guarded region: shutil.copy2("README.md", index_path)
CopyReadme ==
    /\ pc = "mk_copy_readme"
    /\ \E o \in CopyOutcomes(fs, README, index_path) :
        /\ fs' = o[2]
        /\ Log(LReadmeCopy, <<"copy2">>, o[1])
        /\ exc' = IF o[1] THEN exc ELSE "readme_copy"
        /\ pc' = IF o[1] THEN "mk_run" ELSE CleanupOf(task)
    /\ UNCHANGED <<task, cleanArg, clean, cwd, dirname, curdir, steps, runs,
                   builds, entered, entry, orig,
                   removeKept>>

\* mkdocs as it would be with the build run outside the guard: an error of
\* the command skips the finally blocks
RunBuildUnguarded ==
    /\ pc = "mk_run"
    /\ \E ok \in BOOLEAN :
        /\ Log(LBuild, BuildCommand(clean), ok)
        /\ exc' = IF ok THEN exc ELSE "build"
        /\ pc' = IF ok THEN CleanupOf(task) ELSE "returned"
    /\ builds' = Append(builds, fs)
    /\ UNCHANGED <<task, cleanArg, clean, fs, cwd, dirname, curdir, steps, runs,
                   entered, entry, orig,
                   removeKept>>

\* mkdocs, in the guarded region: run("mkdocs build" [+ " --clean"]); run
\* raises when the command exits non-zero.
RunBuild ==
    /\ pc = "mk_run"
    /\ \E ok \in BOOLEAN :
        /\ Log(LBuild, BuildCommand(clean), ok)
        /\ exc' = IF ok THEN exc ELSE "build"
    /\ builds' = Append(builds, fs)
    /\ pc' = CleanupOf(task)
    /\ UNCHANGED <<task, cleanArg, clean, fs, cwd, dirname, curdir, steps, runs,
                   entered, entry, orig,
                   removeKept>>

\* A guarded region of an arbitrary caller writes the target file.
RegionWrite ==
    /\ pc = "region"
    /\ task \in {"backed_up_file", "temp_file"}
    /\ steps < MaxRegionSteps
    /\ steps' = steps + 1
    /\ \E c \in Contents \ {fs[index_path]} : fs' = [fs EXCEPT ![index_path] = c]
    /\ UNCHANGED <<task, cleanArg, clean, pc, exc, cwd, dirname, curdir, runs,
                   trace, builds, entered, entry, orig, failed,
                   removeKept>>

\* A guarded region of an arbitrary caller deletes the target file.
RegionDelete ==
    /\ pc = "region"
    /\ task \in {"backed_up_file", "temp_file"}
    /\ steps < MaxRegionSteps
    /\ fs[index_path] # ABSENT
    /\ steps' = steps + 1
    /\ fs' = [fs EXCEPT ![index_path] = ABSENT]
    /\ UNCHANGED <<task, cleanArg, clean, pc, exc, cwd, dirname, curdir, runs,
                   trace, builds, entered, entry, orig, failed,
                   removeKept>>

\* A guarded region of chdir changes the working directory itself.
RegionChdir ==
    /\ pc = "region"
    /\ task = "chdir"
    /\ steps < MaxRegionSteps
    /\ steps' = steps + 1
    /\ \E d \in DirArgs : \E o \in ChdirOutcomes(cwd, Resolve(cwd, d)) :
        /\ o[1]
        /\ cwd' = o[2]
    /\ UNCHANGED <<task, cleanArg, clean, pc, exc, fs, dirname, curdir, runs,
                   trace, builds, entered, entry, orig, failed,
                   removeKept>>

\* The guarded region returns normally: the generator resumes after yield.
RegionReturn ==
    /\ pc = "region"
    /\ pc' = CleanupOf(task)
    /\ UNCHANGED <<task, cleanArg, clean, exc, fs, cwd, dirname, curdir, steps,
                   runs, trace, builds, entered, entry, orig, failed,
                   removeKept>>

\* backed_up_file as it would be without try/finally: an exception of the
\* region leaves the generator at yield and only temp_file cleans up
RegionRaiseNoFinally ==
    /\ pc = "region"
    /\ exc' = "region"
    /\ pc' = IF task \in UsesBackup THEN "tf_remove" ELSE CleanupOf(task)
    /\ UNCHANGED <<task, cleanArg, clean, fs, cwd, dirname, curdir, steps, runs,
                   trace, builds, entered, entry, orig, failed,
                   removeKept>>

\* The guarded region raises: the exception is thrown into the generator at
\* yield.
RegionRaise ==
    /\ pc = "region"
    /\ exc' = "region"
    /\ pc' = CleanupOf(task)
    /\ UNCHANGED <<task, cleanArg, clean, fs, cwd, dirname, curdir, steps, runs,
                   trace, builds, entered, entry, orig, failed,
                   removeKept>>

\* backed_up_file as it would be with the restore copy left out
RestoreSkipped ==
    /\ pc = "bf_restore"
    /\ Log(LRestore, <<"copy2">>, TRUE)
    /\ pc' = "tf_remove"
    /\ UNCHANGED <<task, cleanArg, clean, exc, fs, cwd, dirname, curdir, steps,
                   runs, builds, entered, entry, orig,
                   removeKept>>

\* backed_up_file as it would be with the restore copy taken from README.md
RestoreFromReadme ==
    /\ pc = "bf_restore"
    /\ \E o \in CopyOutcomes(fs, README, index_path) :
        /\ fs' = o[2]
        /\ Log(LRestore, <<"copy2">>, o[1])
        /\ exc' = IF o[1] THEN exc ELSE "restore"
    /\ pc' = "tf_remove"
    /\ UNCHANGED <<task, cleanArg, clean, cwd, dirname, curdir, steps, runs,
                   builds, entered, entry, orig,
                   removeKept>>

\* backed_up_file, finally: shutil.copy2(backup_path, filepath); then the
\* with block of temp_file is left.
Restore ==
    /\ pc = "bf_restore"
    /\ \E o \in CopyOutcomes(fs, index_backup_path, index_path) :
        /\ fs' = o[2]
        /\ Log(LRestore, <<"copy2">>, o[1])
        /\ exc' = IF o[1] THEN exc ELSE "restore"
    /\ pc' = "tf_remove"
    /\ UNCHANGED <<task, cleanArg, clean, cwd, dirname, curdir, steps, runs,
                   builds, entered, entry, orig,
                   removeKept>>

\* temp_file as it would be with the removal left out
TempRemoveKeeps ==
    /\ pc = "tf_remove"
    /\ Log(LRemove, <<"remove">>, TRUE)
    /\ pc' = "returned"
    /\ UNCHANGED <<task, cleanArg, clean, exc, fs, cwd, dirname, curdir, steps,
                   runs, builds, entered, entry, orig,
                   removeKept>>

\* temp_file, finally: os.remove(filepath); the guard has then exited.
TempRemove ==
    /\ pc = "tf_remove"
    /\ \E o \in RemoveOutcomes(fs, index_backup_path) :
        /\ fs' = o[2]
        /\ Log(LRemove, <<"remove">>, o[1])
        /\ exc' = IF o[1] THEN exc ELSE "remove"
        /\ removeKept' = (removeKept \/ (~o[1] /\ fs[index_backup_path] # ABSENT))
    /\ pc' = "returned"
    /\ UNCHANGED <<task, cleanArg, clean, cwd, dirname, curdir, steps, runs,
                   builds, entered, entry, orig>>

\* chdir: curdir = os.getcwd(), before the try block.
Getcwd ==
    /\ pc = "cd_getcwd"
    /\ \E ok \in BOOLEAN :
        /\ Log(LGetcwd, <<"getcwd">>, ok)
        /\ curdir' = IF ok THEN cwd ELSE curdir
        /\ exc' = IF ok THEN exc ELSE "getcwd"
        /\ pc' = IF ok THEN "cd_enter" ELSE "returned"
    /\ UNCHANGED <<task, cleanArg, clean, fs, cwd, dirname, steps, runs, builds,
                   entered, entry, orig,
                   removeKept>>

\* chdir: os.chdir(dirname), then yield; on an error the finally block runs.
ChdirEnter ==
    /\ pc = "cd_enter"
    /\ \E o \in ChdirOutcomes(cwd, Resolve(cwd, dirname)) :
        /\ cwd' = o[2]
        /\ Log(LChdir, <<"chdir">>, o[1])
        /\ exc' = IF o[1] THEN exc ELSE "chdir"
        /\ pc' = IF o[1] THEN "region" ELSE "cd_restore"
        /\ entered' = o[1]
    /\ UNCHANGED <<task, cleanArg, clean, fs, dirname, curdir, steps, runs,
                   builds, entry, orig,
                   removeKept>>

\* chdir as it would be with the directory not changed back
ChdirRestoreSkipped ==
    /\ pc = "cd_restore"
    /\ Log(LChdirBack, <<"chdir">>, TRUE)
    /\ pc' = "returned"
    /\ UNCHANGED <<task, cleanArg, clean, exc, fs, cwd, dirname, curdir, steps,
                   runs, builds, entered, entry, orig,
                   removeKept>>

\* chdir, finally: os.chdir(curdir)
ChdirRestore ==
    /\ pc = "cd_restore"
    /\ \E o \in ChdirOutcomes(cwd, curdir) :
        /\ cwd' = o[2]
        /\ Log(LChdirBack, <<"chdir">>, o[1])
        /\ exc' = IF o[1] THEN exc ELSE "chdir_back"
    /\ pc' = "returned"
    /\ UNCHANGED <<task, cleanArg, clean, fs, dirname, curdir, steps, runs,
                   builds, entered, entry, orig,
                   removeKept>>

\* site as it would be if a failed post task did not stop the next one
NextPostTaskAlways ==
    /\ pc = "returned"
    /\ task = "site"
    /\ pc' = "api"
    /\ UNCHANGED <<task, cleanArg, clean, exc, fs, cwd, dirname, curdir, steps,
                   runs, trace, builds, entered, entry, orig, failed,
                   removeKept>>

\* site: mkdocs has returned normally, the next post task is api.
NextPostTask ==
    /\ pc = "returned"
    /\ task = "site"
    /\ exc = "none"
    /\ pc' = "api"
    /\ UNCHANGED <<task, cleanArg, clean, exc, fs, cwd, dirname, curdir, steps,
                   runs, trace, builds, entered, entry, orig, failed,
                   removeKept>>

\* api(): lein("codox"), that is run("lein codox")
Api ==
    /\ pc = "api"
    /\ \E ok \in BOOLEAN :
        /\ Log(LLein, LeinCommand("codox"), ok)
        /\ exc' = IF ok THEN exc ELSE "lein"
    /\ pc' = "idle"
    /\ UNCHANGED <<task, cleanArg, clean, fs, cwd, dirname, curdir, steps, runs,
                   builds, entered, entry, orig,
                   removeKept>>

\* The invocation ends: normally, or with exc propagated to the caller.
Finish ==
    /\ pc = "returned"
    /\ task = "site" => exc # "none"
    /\ pc' = "idle"
    /\ UNCHANGED <<task, cleanArg, clean, exc, fs, cwd, dirname, curdir, steps,
                   runs, trace, builds, entered, entry, orig, failed,
                   removeKept>>

Next ==
    \/ Invoke
    \/ SiteBody
    \/ Mkdocs
    \/ TempCreate
    \/ EntryCopy
    \/ CopyReadme
    \/ RunBuild
    \/ RegionWrite
    \/ RegionDelete
    \/ RegionChdir
    \/ RegionReturn
    \/ RegionRaise
    \/ Restore
    \/ TempRemove
    \/ Getcwd
    \/ ChdirEnter
    \/ ChdirRestore
    \/ NextPostTask
    \/ Api
    \/ Finish

Spec == Init /\ [][Next]_vars

TypeOK ==
    /\ task \in Tasks
    /\ pc \in {"idle", "site_body", "mkdocs", "tf_create", "bf_entry_copy",
               "mk_copy_readme", "mk_run", "region", "bf_restore", "tf_remove",
               "cd_getcwd", "cd_enter", "cd_restore", "returned", "api"}
    /\ fs \in [Paths -> Contents \cup {ABSENT}]
    /\ cwd \in ExistingDirs
    /\ runs \in 0..MaxRuns
\* ------------------------------------------------------------- properties

\* the guard (and with it the guarded region) has been left
GuardExited == pc \in {"returned", "api"} \/ (pc = "idle" /\ runs > 0)

\* control is inside the with block of temp_file
InTempRegion ==
    /\ task # "chdir"
    /\ pc \in {"bf_entry_copy", "mk_copy_readme", "mk_run", "region", "bf_restore"}

NoGuardFault == \A l \in GuardLines : ~Failed(l)

OnlyOnce(line) == Cardinality(At(line)) = 1

Before(l1, l2) == \A i \in At(l1) : \A j \in At(l2) : i < j

\* C1: a target file that exists with content C when backed_up_file is
\* entered exists with content C once backed_up_file has exited, however the
\* region exited and whatever it did to the file, provided none of the
\* guard's own create / copy / remove calls failed.
C1_TargetRestored ==
    (/\ task \in UsesBackup
     /\ GuardExited
     /\ entry.fs[index_path] # ABSENT
     /\ NoGuardFault)
    => fs[index_path] = entry.fs[index_path]

\* the region changed the file twice and raised; the guard has exited
C1_Witness ==
    /\ task = "backed_up_file"
    /\ pc = "returned"
    /\ exc = "region"
    /\ steps >= 2
    /\ entry.fs[index_path] = "old"
    /\ NoGuardFault
    /\ Succeeded(LRestore)
    /\ fs[index_path] = "old"

\* C2 (as stated): a path that does not exist before temp_file is entered
\* exists while the guarded region runs and does not exist after the guard
\* has exited, whether the region returned or raised.
C2_Original ==
    (task # "chdir" /\ entry.fs[index_backup_path] = ABSENT)
    => /\ InTempRegion => fs[index_backup_path] # ABSENT
       /\ GuardExited => fs[index_backup_path] = ABSENT

\* C2 (amended): the same, provided os.remove does not fail on the file that
\* temp_file has created.
C2_TempFileGone ==
    (task # "chdir" /\ entry.fs[index_backup_path] = ABSENT)
    => /\ InTempRegion => fs[index_backup_path] # ABSENT
       /\ (GuardExited /\ ~(Succeeded(LOpen) /\ Failed(LRemove)))
            => fs[index_backup_path] = ABSENT

\* temp_file was entered on a fresh path, its region raised, the file is gone
C2_Witness ==
    /\ task = "temp_file"
    /\ entry.fs[index_backup_path] = ABSENT
    /\ pc = "returned"
    /\ exc = "region"
    /\ Succeeded(LOpen)
    /\ Succeeded(LRemove)
    /\ fs[index_backup_path] = ABSENT

\* C3: whenever the guarded region of backed_up_file was entered, the restore
\* copy (line 44) is called before the removal of the backup (line 55), and
\* both calls have been made once the guard has exited, also when the region
\* raised.
C3_RestoreBeforeRemove ==
    (task \in UsesBackup /\ entered)
    => /\ Before(LRestore, LRemove)
       /\ Called(LRemove) => Called(LRestore)
       /\ GuardExited => OnlyOnce(LRestore) /\ OnlyOnce(LRemove)

\* the region was entered and raised; both calls were made, in this order
C3_Witness ==
    /\ task \in UsesBackup
    /\ entered
    /\ exc \in {"region", "build"}
    /\ pc = "returned"
    /\ Len(trace) >= 2
    /\ trace[Len(trace) - 1].line = LRestore
    /\ trace[Len(trace)].line = LRemove

\* C4 (as stated): if the entry copy fails, the region never runs, the restore
\* copy is not attempted, the target file is left as it was, the backup is
\* removed and the error of the entry copy reaches the caller.
C4_Claim ==
    (task \in UsesBackup /\ Failed(LEntryCopy))
    => /\ ~entered
       /\ ~Called(LRestore)
       /\ fs[index_path] = entry.fs[index_path]
       /\ GuardExited => Called(LRemove) /\ exc = "entry_copy"

\* C5 (as stated): if creating the file fails, the region never runs and the
\* creation error is the one that reaches the caller.
C5_Claim ==
    (task # "chdir" /\ Failed(LOpen))
    => /\ ~entered
       /\ GuardExited => exc = "open"

\* the mkdocs call of the invocation is over
MkdocsEnded == task \in {"mkdocs", "site"} /\ GuardExited

\* C6 (as stated): when the build command exits non-zero, mkdocs fails with the
\* command's error, docs/index.md holds its content from before the build and
\* the backup file does not exist.
C6_Original ==
    (MkdocsEnded /\ Failed(LBuild))
    => /\ exc = "build"
       /\ fs[index_path] = entry.fs[index_path]
       /\ fs[index_backup_path] = ABSENT

\* C6 (amended): the same, provided the restore copy and the removal of the
\* backup, which run after the failed command, do not fail themselves.
C6_BuildFailureCleansUp ==
    (MkdocsEnded /\ Failed(LBuild) /\ ~Failed(LRestore) /\ ~Failed(LRemove))
    => /\ exc = "build"
       /\ fs[index_path] = entry.fs[index_path]
       /\ fs[index_backup_path] = ABSENT

\* the build command failed while docs/index.md held the README; it is restored
C6_Witness ==
    /\ task = "mkdocs"
    /\ pc = "idle"
    /\ Failed(LBuild)
    /\ exc = "build"
    /\ entry.fs[index_path] = "old"
    /\ builds[1][index_path] = "new"
    /\ fs[index_path] = "old"
    /\ fs[index_backup_path] = ABSENT

\* no call of the mkdocs task has failed and its guard has exited
MkdocsSucceeded ==
    /\ MkdocsEnded
    /\ \A i \in 1..Len(trace) : trace[i].line # LLein => trace[i].ok

\* C7: in a successful run of mkdocs with docs/index.md = O and README.md = N,
\* the build command is invoked while docs/index.md holds N and the backup
\* holds O, and afterwards docs/index.md holds O again.
C7_BuildSeesReadme ==
    MkdocsSucceeded
    => /\ Len(builds) = 1
       /\ builds[1][index_path] = entry.fs[README]
       /\ builds[1][index_backup_path] = entry.fs[index_path]
       /\ fs[index_path] = entry.fs[index_path]

\* scenario 1 of the specification
C7_Witness ==
    /\ task = "mkdocs"
    /\ pc = "idle"
    /\ exc = "none"
    /\ MkdocsSucceeded
    /\ entry.fs[index_path] = "old"
    /\ entry.fs[README] = "new"
    /\ builds[1][index_path] = "new"
    /\ builds[1][index_backup_path] = "old"
    /\ fs[index_path] = "old"

\* C8: in the site task every static-site build is run with --clean, and lein
\* codox is started only after the build was run and mkdocs has completed:
\* docs/index.md restored from the backup and the backup deleted.
C8_SiteOrder ==
    task = "site"
    => /\ \A i \in At(LBuild) : trace[i].what = <<"mkdocs build", "--clean">>
       /\ \A i \in At(LLein) : trace[i].what = <<"lein", "codox">>
       /\ (pc = "api" \/ Called(LLein))
            => /\ Succeeded(LBuild)
               /\ Succeeded(LRestore)
               /\ Succeeded(LRemove)
               /\ Before(LBuild, LLein)
               /\ Before(LRestore, LLein)
               /\ Before(LRemove, LLein)
               /\ fs[index_path] = entry.fs[index_path]
               /\ fs[index_backup_path] = ABSENT

\* site has run both commands
C8_Witness ==
    /\ task = "site"
    /\ pc = "idle"
    /\ exc = "none"
    /\ Succeeded(LBuild)
    /\ Succeeded(LLein)
    /\ trace[Len(trace)].line = LLein
    /\ entry.fs[index_path] = "old"
    /\ fs[index_path] = "old"

C10_Original ==
    (task = "chdir" /\ Succeeded(LGetcwd))
    => /\ curdir = entry.cwd
       /\ (pc = "region" /\ steps = 0) => cwd = Resolve(curdir, dirname)
       /\ GuardExited => cwd = curdir

\* C10 (amended): the same, provided the os.chdir(curdir) of the finally block
\* does not fail.
C10_CwdRestored ==
    (task = "chdir" /\ Succeeded(LGetcwd))
    => /\ curdir = entry.cwd
       /\ (pc = "region" /\ steps = 0) => cwd = Resolve(curdir, dirname)
       /\ (GuardExited /\ ~Failed(LChdirBack)) => cwd = curdir

\* the region ran in another directory and raised; the directory is back
C10_Witness ==
    /\ task = "chdir"
    /\ pc = "returned"
    /\ exc = "region"
    /\ entered
    /\ steps >= 1
    /\ Succeeded(LChdirBack)
    /\ entry.cwd = <<"docs">>
    /\ cwd = <<"docs">>

\* C10, second case: os.chdir(dirname) failed and the directory is unchanged
C10_WitnessEnterFailed ==
    /\ task = "chdir"
    /\ pc = "returned"
    /\ exc = "chdir"
    /\ Succeeded(LChdirBack)
    /\ cwd = entry.cwd
====
